---- MODULE Spec2Model ----
(***************************************************************************)
(* Model of the account store of flask_backend/account_sql.py: one SQLite  *)
(* table `account` and the methods of class AccountSQL working on it.      *)
(*                                                                         *)
(* A row of the table is the 6-tuple that `SELECT *` returns,              *)
(*   <<user_id, username, password, role, start_time, end_time>>,          *)
(* so Python's item[k] is row[k+1] here.  An element of account_list is    *)
(* the 5-tuple <<username, password, role, start_time, end_time>>.         *)
(* Every column but user_id holds text.                                    *)
(***************************************************************************)
EXTENDS Integers, Sequences, FiniteSets, TLC

VARIABLES
    tableExists,   \* the storage location holds the table `account`
    accounts,      \* the rows of `account`, in rowid order
    call,          \* the method call the caller made last, with its arguments
    result         \* what that call returned or raised

vars == <<tableExists, accounts, call, result>>

----------------------------------------------------------------------------
(* Bounds and input sets *)

\* longest account_list handed to create_accounts
MaxBatch == 2

Usernames == {"admin", "alice"}
Secrets == {"X", "Y"}
Roles == {"student"}

\* outputs generate_key(15) may draw
GeneratedKeys == {"k9Q!mZ2pLw4#Tc_", "Hd7+eR1^bN5(uYs"}
Passwords == Secrets \cup GeneratedKeys

AdminStart == "2023-01-01 00:00:00"
AdminEnd == "2030-01-01 00:00:00"

\* time texts callers pass to create_accounts
CreateTimes == {"2023-04-17 00:00:00", "2023-05-17 00:00:00"}
\* time texts callers pass to update_allow_time; "17/04/2023" does not match
\* the format "%Y-%m-%d %H:%M:%S"
UpdateTimes == CreateTimes \cup {AdminEnd, "17/04/2023"}

\* readings of datetime.now(), as YYYYMMDD
ClockTimes == {20230501, 20310101}

AccountTuples == Usernames \X Secrets \X Roles \X CreateTimes \X CreateTimes
AccountLists == UNION {[1..n -> AccountTuples] : n \in 0..MaxBatch}

----------------------------------------------------------------------------
(* Module-level functions *)

\* the texts datetime.strptime(_, "%Y-%m-%d %H:%M:%S") accepts
TimeParses(text) ==
    text \in {"2023-01-01 00:00:00", "2023-04-17 00:00:00",
              "2023-05-17 00:00:00", "2030-01-01 00:00:00"}

\* datetime.strptime of an accepted text, as the number YYYYMMDD (every text
\* of the model is at 00:00:00, so the order of datetimes is the order of
\* these numbers)
strptime(text) ==
    CASE text = "2023-01-01 00:00:00" -> 20230101
      [] text = "2023-04-17 00:00:00" -> 20230417
      [] text = "2023-05-17 00:00:00" -> 20230517
      [] text = "2030-01-01 00:00:00" -> 20300101

\* verify_time: <<end_time > start_time, end_time > now > start_time>>;
\* raises ValueError (not modelled here: callers test TimeParses first, in
\* the order strptime is called) when a text does not parse
verify_time(start_time, end_time, now) ==
    LET s == strptime(start_time)
        e == strptime(end_time)
    IN  <<e > s, e > now /\ now > s>>

\* hashlib.sha256(a_string.encode("utf-8")).hexdigest()
get_hex_sha(a_string) ==
    CASE a_string = "X" ->
           "4b68ab3847feda7d6c62c1fbcbeebfa35eab7351ed5e78f4ddadea5df64b8015"
      [] a_string = "Y" ->
           "18f5384d58bcb1bba0bcd9e6a6781d1a6ac2cc280c330ecbab6cb7931b721552"
      [] a_string = "k9Q!mZ2pLw4#Tc_" ->
           "a96c8bb2181439b006b1acf48a81b795949b2c97e041ce5e6839489c9087bdaa"
      [] a_string = "Hd7+eR1^bN5(uYs" ->
           "6daee46b4cad9b4f0096cca7fbb955c19ed6b33c07922b56810d678bb8bf23c8"

----------------------------------------------------------------------------
(* Results of a call *)

\* Python's None (no row, no return value)
None == <<>>

NoCall == [op |-> "none"]
NoResult == [kind |-> "none"]
Return(v) == [kind |-> "return", value |-> v]
Raise(e) == [kind |-> "raise", exc |-> e]

\* what a method does: the table it leaves and what the caller gets
Outcome(accts, res) == [accounts |-> accts, result |-> res]

----------------------------------------------------------------------------
(* SQL helpers *)

\* cursor.fetchone() of a SELECT: the first row in rowid order, or None
fetchone(rows) == IF rows = <<>> THEN None ELSE Head(rows)

\* SELECT * FROM account WHERE username = ?
SelectByUsername(accts, username) ==
    SelectSeq(accts, LAMBDA row : row[2] = username)

\* SELECT * FROM account WHERE username = ? AND password = ?
SelectByUsernameAndPassword(accts, username, password) ==
    SelectSeq(accts, LAMBDA row : row[2] = username /\ row[3] = password)

\* the user_id AUTOINCREMENT assigns: one more than the largest ever used;
\* no method deletes a row, so that is the number of rows plus one
NextUserId(accts) == Len(accts) + 1

\* INSERT INTO account (username, password, role, start_time, end_time)
InsertRow(accts, username, password, role, start_time, end_time) ==
    Append(accts,
           <<NextUserId(accts), username, password, role, start_time, end_time>>)

----------------------------------------------------------------------------
(* Methods of AccountSQL, as functions of the table and the arguments *)

\* check_username_exits: SELECT COUNT(username) ... WHERE username = ? is not 0
check_username_exits(accts, username) ==
    Len(SelectByUsername(accts, username)) # 0

\* SELECT COUNT(role) FROM account WHERE role = 'admin'
CountAdmin(accts) ==
    Len(SelectSeq(accts, LAMBDA row : row[4] = "admin"))

\* a bootstrap that forgets the COUNT test
init_admin_always(accts, admin_pwd) ==
    InsertRow(accts, "admin", get_hex_sha(admin_pwd), "admin",
              AdminStart, AdminEnd)

\* _init_admin_if_not_exits, admin_pwd being what generate_key(15) drew
init_admin_if_not_exits(accts, admin_pwd) ==
    IF CountAdmin(accts) = 0
    THEN InsertRow(accts, "admin", get_hex_sha(admin_pwd), "admin",
                   AdminStart, AdminEnd)
    ELSE accts

\* first loop of create_accounts: the exception the first offending element
\* raises, or "ok" when the loop runs to its end
RECURSIVE ValidateAccounts(_, _, _)
ValidateAccounts(accts, account_list, now) ==
    IF account_list = <<>> THEN "ok"
    ELSE LET account == Head(account_list)
         IN  IF check_username_exits(accts, account[1])
             THEN "DuplicateValueError"
             ELSE IF ~(TimeParses(account[4]) /\ TimeParses(account[5]))
             THEN "ValueError"
             ELSE IF ~verify_time(account[4], account[5], now)[1]
             THEN "TimeSetError"
             ELSE ValidateAccounts(accts, Tail(account_list), now)

\* second loop of create_accounts: one INSERT per element, in order
RECURSIVE InsertAccounts(_, _)
InsertAccounts(accts, account_list) ==
    IF account_list = <<>> THEN accts
    ELSE LET account == Head(account_list)
         IN  InsertAccounts(
                 InsertRow(accts, account[1], get_hex_sha(account[2]),
                           account[3], account[4], account[5]),
                 Tail(account_list))

\* a create_accounts with ONE loop, which checks an element and inserts it
\* before it looks at the next
RECURSIVE create_accounts_one_loop(_, _, _)
create_accounts_one_loop(accts, account_list, now) ==
    IF account_list = <<>> THEN Outcome(accts, Return(None))
    ELSE LET checked == ValidateAccounts(accts, <<Head(account_list)>>, now)
         IN  IF checked # "ok"
             THEN Outcome(accts, Raise(checked))
             ELSE create_accounts_one_loop(
                      InsertAccounts(accts, <<Head(account_list)>>),
                      Tail(account_list), now)

create_accounts(accts, account_list, now) ==
    LET checked == ValidateAccounts(accts, account_list, now)
    IN  IF checked # "ok"
        THEN Outcome(accts, Raise(checked))
        ELSE Outcome(InsertAccounts(accts, account_list), Return(None))

username_get_base_info(accts, username) ==
    LET item == fetchone(SelectByUsername(accts, username))
    IN  IF item = None
        THEN Outcome(accts, Raise("TypeError"))
        ELSE Outcome(accts, Return(<<item[1], item[2], item[4], item[5]>>))

\* a verify_account whose second query is skipped: every miss is reported
\* as an unknown account
verify_account_one_query(accts, username, password) ==
    LET full_export ==
            fetchone(SelectByUsernameAndPassword(accts, username,
                                                 get_hex_sha(password)))
    IN  IF full_export # None
        THEN Outcome(accts, Return(full_export))
        ELSE Outcome(accts, Raise("AccountError"))

verify_account(accts, username, password) ==
    LET full_export ==
            fetchone(SelectByUsernameAndPassword(accts, username,
                                                 get_hex_sha(password)))
        username_export == fetchone(SelectByUsername(accts, username))
    IN  IF full_export # None
        THEN Outcome(accts, Return(full_export))
        ELSE IF username_export # None
        THEN Outcome(accts, Raise("PasswordError"))
        ELSE Outcome(accts, Raise("AccountError"))

\* what `except AccountError or PasswordError:` catches: Python evaluates the
\* expression `AccountError or PasswordError` to its first operand
ChangePasswordCatches == {"AccountError"}

\* UPDATE account SET password = ? WHERE username = ?
UpdatePassword(accts, password, username) ==
    [i \in 1..Len(accts) |->
        IF accts[i][2] = username
        THEN [accts[i] EXCEPT ![3] = password]
        ELSE accts[i]]

change_password(accts, username, old_pwd, new_pwd) ==
    LET verified == verify_account(accts, username, old_pwd).result
    IN  IF verified.kind = "raise"
        THEN IF verified.exc \in ChangePasswordCatches
             THEN Outcome(accts, Return(FALSE))
             ELSE Outcome(accts, verified)
        ELSE Outcome(UpdatePassword(accts, get_hex_sha(new_pwd), username),
                     Return(TRUE))

\* SQLite's numeric value of a time text in a boolean context: its longest
\* numeric prefix, the year
NumericPrefix(text) == strptime(text) \div 10000

\* the value SQLite assigns in `SET start_time = ? and end_time = ?`: the
\* statement has ONE assignment, start_time = (? AND (end_time = ?)), whose
\* integer 1 or 0 the TEXT column stores as text
StartTimeAssigned(row, start_time, end_time) ==
    IF NumericPrefix(start_time) # 0 /\ row[6] = end_time THEN "1" ELSE "0"

\* UPDATE account SET start_time = ? and end_time = ? WHERE username = ?
UpdateTime(accts, start_time, end_time, username) ==
    [i \in 1..Len(accts) |->
        IF accts[i][2] = username
        THEN [accts[i] EXCEPT
                 ![5] = StartTimeAssigned(accts[i], start_time, end_time)]
        ELSE accts[i]]

update_allow_time(accts, username, start_time, end_time, now) ==
    IF check_username_exits(accts, username)
    THEN IF ~(TimeParses(start_time) /\ TimeParses(end_time))
         THEN Outcome(accts, Raise("ValueError"))
         ELSE IF verify_time(start_time, end_time, now)[1]
         THEN Outcome(UpdateTime(accts, start_time, end_time, username),
                      Return(None))
         ELSE Outcome(accts, Raise("TimeSetError"))
    ELSE Outcome(accts, Raise("AccountError"))

----------------------------------------------------------------------------
(* The state machine: a caller constructs the store, calls its methods one  *)
(* at a time and takes each result before the next call                     *)

Init ==
    /\ tableExists = FALSE
    /\ accounts = <<>>
    /\ call = NoCall
    /\ result = NoResult

\* AccountSQL(sql_name): CREATE TABLE IF NOT EXISTS, then the bootstrap admin;
\* the warning logged carries the generated password
Construct ==
    /\ call = NoCall
    /\ \E admin_pwd \in GeneratedKeys :
        /\ tableExists' = TRUE
        /\ accounts' = init_admin_if_not_exits(accounts, admin_pwd)
        /\ call' = [op |-> "__init__"]
        /\ result' = [kind |-> "return", value |-> None,
                      warned |-> IF CountAdmin(accounts) = 0
                                 THEN <<admin_pwd>> ELSE <<>>]

CreateAccounts ==
    /\ call = NoCall
    /\ tableExists
    /\ \E account_list \in AccountLists, now \in ClockTimes :
        LET out == create_accounts(accounts, account_list, now)
        IN  /\ accounts' = out.accounts
            /\ result' = out.result
            /\ call' = [op |-> "create_accounts", account_list |-> account_list]
    /\ UNCHANGED tableExists

CheckUsernameExits ==
    /\ call = NoCall
    /\ tableExists
    /\ \E username \in Usernames :
        /\ result' = Return(check_username_exits(accounts, username))
        /\ call' = [op |-> "check_username_exits", username |-> username]
    /\ UNCHANGED <<tableExists, accounts>>

UsernameGetBaseInfo ==
    /\ call = NoCall
    /\ tableExists
    /\ \E username \in Usernames :
        LET out == username_get_base_info(accounts, username)
        IN  /\ accounts' = out.accounts
            /\ result' = out.result
            /\ call' = [op |-> "username_get_base_info", username |-> username]
    /\ UNCHANGED tableExists

VerifyAccount ==
    /\ call = NoCall
    /\ tableExists
    /\ \E username \in Usernames, password \in Passwords :
        LET out == verify_account(accounts, username, password)
        IN  /\ accounts' = out.accounts
            /\ result' = out.result
            /\ call' = [op |-> "verify_account", username |-> username,
                        password |-> password]
    /\ UNCHANGED tableExists

ChangePassword ==
    /\ call = NoCall
    /\ tableExists
    /\ \E username \in Usernames, old_pwd \in Passwords, new_pwd \in Secrets :
        LET out == change_password(accounts, username, old_pwd, new_pwd)
        IN  /\ accounts' = out.accounts
            /\ result' = out.result
            /\ call' = [op |-> "change_password", username |-> username,
                        old_pwd |-> old_pwd, new_pwd |-> new_pwd]
    /\ UNCHANGED tableExists

UpdateAllowTime ==
    /\ call = NoCall
    /\ tableExists
    /\ \E username \in Usernames, start_time \in UpdateTimes,
          end_time \in UpdateTimes, now \in ClockTimes :
        LET out == update_allow_time(accounts, username, start_time,
                                     end_time, now)
        IN  /\ accounts' = out.accounts
            /\ result' = out.result
            /\ call' = [op |-> "update_allow_time", username |-> username,
                        start_time |-> start_time, end_time |-> end_time]
    /\ UNCHANGED tableExists

\* the caller has taken the result and may call again
TakeResult ==
    /\ call # NoCall
    /\ call' = NoCall
    /\ result' = NoResult
    /\ UNCHANGED <<tableExists, accounts>>

Next ==
    \/ Construct
    \/ CreateAccounts
    \/ CheckUsernameExits
    \/ UsernameGetBaseInfo
    \/ VerifyAccount
    \/ ChangePassword
    \/ UpdateAllowTime
    \/ TakeResult

Spec == Init /\ [][Next]_vars

----------------------------------------------------------------------------
(* Vocabulary of the properties *)

\* the step in which the caller calls method `op`
Calls(op) == call = NoCall /\ call'.op = op

\* some row of the table carries the username
Stored(accts, username) ==
    \E i \in 1..Len(accts) : accts[i][2] = username

\* the rows the table had stay as they were; rows may have been added
KeepsRows(old, new) ==
    /\ Len(new) >= Len(old)
    /\ \A i \in 1..Len(old) : new[i] = old[i]

\* a text is a timestamp of the schema's format
IsTimestamp(text) == TimeParses(text)

\* an element of account_list that validation must refuse
Refused(accts, account) ==
    \/ Stored(accts, account[1])
    \/ ~(strptime(account[5]) > strptime(account[4]))

\* a later element repeats the username of an earlier one, not stored yet
RepeatsUsername(accts, account_list) ==
    \E i, j \in 1..Len(account_list) :
        /\ i < j
        /\ account_list[i][1] = account_list[j][1]
        /\ ~Stored(accts, account_list[i][1])

----------------------------------------------------------------------------
(* Properties *)

\* C1: a batch in which a later tuple repeats the username of an earlier one
\* (not stored yet) is rejected as a whole: create_accounts raises and the
\* table after the call equals the table before it.
C1_RepeatedUsernameRejectsBatch ==
    [][Calls("create_accounts") /\ RepeatsUsername(accounts, call'.account_list)
         => result'.kind = "raise" /\ accounts' = accounts]_vars

\* C2: create_accounts is all-or-nothing with respect to validation: when any
\* tuple, at any position, names a stored username or has end_time not
\* strictly after start_time, the call raises DuplicateValueError or
\* TimeSetError and the table is left exactly as it was; a call never changes
\* or removes a row the table had.
C2_ValidationAllOrNothing ==
    [][Calls("create_accounts") =>
         /\ KeepsRows(accounts, accounts')
         /\ (\E i \in 1..Len(call'.account_list) :
                 Refused(accounts, call'.account_list[i]))
            => /\ accounts' = accounts
               /\ result'.kind = "raise"
               /\ result'.exc \in {"DuplicateValueError", "TimeSetError"}]_vars

\* C2 witness: a batch whose first tuple is acceptable and whose second names
\* a stored username was refused.
C2_Witness ==
    /\ call.op = "create_accounts"
    /\ Len(call.account_list) = 2
    /\ ~Refused(accounts, call.account_list[1])
    /\ Stored(accounts, call.account_list[2][1])
    /\ result = Raise("DuplicateValueError")

\* C3: verify_account has exactly three outcomes decided by the stored rows:
\* it returns a row matching the username and the hash of the secret when
\* there is one; it raises PasswordError when some row has the username and
\* none matches the hash too; it raises AccountError when no row has the
\* username.  It never modifies the table.
C3_VerifyThreeOutcomes ==
    [][Calls("verify_account") =>
         LET u == call'.username
             h == get_hex_sha(call'.password)
             both == {i \in 1..Len(accounts) :
                          accounts[i][2] = u /\ accounts[i][3] = h}
         IN  /\ accounts' = accounts
             /\ both # {} =>
                    /\ result'.kind = "return"
                    /\ \E i \in both : result'.value = accounts[i]
             /\ (both = {} /\ Stored(accounts, u)) =>
                    result' = Raise("PasswordError")
             /\ ~Stored(accounts, u) => result' = Raise("AccountError")]_vars

\* C3 witness: a call for a stored username with a secret that matches no row
\* of that username ended in PasswordError.
C3_Witness ==
    /\ call.op = "verify_account"
    /\ Stored(accounts, call.username)
    /\ result = Raise("PasswordError")

\* C4: change_password with a current secret that does not verify (wrong
\* password, or unknown username) returns False, signals no error, and leaves
\* the table, hence the stored digest, unchanged.
C4_ChangePasswordRefusesWithFalse ==
    [][(/\ Calls("change_password")
        /\ verify_account(accounts, call'.username,
                          call'.old_pwd).result.kind = "raise")
         => result' = Return(FALSE) /\ accounts' = accounts]_vars

\* C5: update_allow_time for a stored username and a window with end strictly
\* after start sets start_time and end_time of that account to the supplied
\* values and changes no other field and no other account.
C5_UpdateOverwritesBothTimes ==
    [][(/\ Calls("update_allow_time")
        /\ Stored(accounts, call'.username)
        /\ TimeParses(call'.start_time) /\ TimeParses(call'.end_time)
        /\ strptime(call'.end_time) > strptime(call'.start_time))
         => /\ Len(accounts') = Len(accounts)
            /\ \A i \in 1..Len(accounts) :
                 accounts'[i] =
                   IF accounts[i][2] = call'.username
                   THEN [accounts[i] EXCEPT ![5] = call'.start_time,
                                            ![6] = call'.end_time]
                   ELSE accounts[i]]_vars

\* C6: initialization inserts the bootstrap admin row only when no row with
\* role "admin" exists, and otherwise leaves the table unchanged; so after
\* the store is constructed on a brand-new location, and after it is
\* constructed again, exactly one row has role "admin".
C6_InitIdempotent ==
    [][Calls("__init__") =>
         /\ CountAdmin(accounts) = 0 =>
              /\ Len(accounts') = Len(accounts) + 1
              /\ KeepsRows(accounts, accounts')
              /\ accounts'[Len(accounts')][4] = "admin"
         /\ CountAdmin(accounts) # 0 => accounts' = accounts
         /\ (~tableExists \/ Len(accounts) = 1) => CountAdmin(accounts') = 1]_vars

\* C6 witness: the store was constructed again on a location that held the
\* bootstrap admin row and nothing else: no password was generated and the
\* table still holds that one row.
C6_Witness ==
    /\ call.op = "__init__"
    /\ result.warned = <<>>
    /\ Len(accounts) = 1
    /\ CountAdmin(accounts) = 1

\* C7: right after create_accounts accepted a batch, for every tuple
\* (username, X, role, start, end) of it verify_account(username, X) returns
\* a row carrying that username, role, start and end, and
\* verify_account(username, Y) raises PasswordError for every secret Y # X.
C7_CreateVerifyRoundTrip ==
    (call.op = "create_accounts" /\ result.kind = "return") =>
        \A i \in 1..Len(call.account_list) :
            LET account == call.account_list[i]
                same == verify_account(accounts, account[1], account[2]).result
            IN  /\ same.kind = "return"
                /\ same.value[2] = account[1]
                /\ same.value[4] = account[3]
                /\ same.value[5] = account[4]
                /\ same.value[6] = account[5]
                /\ \A other \in Passwords \ {account[2]} :
                     verify_account(accounts, account[1], other).result
                       = Raise("PasswordError")

\* C8: username_get_base_info for a stored username returns the 4-tuple
\* (user_id, role, start_time, end_time) of an account with that username,
\* and does not modify the table.
C8_BaseInfoFields ==
    [][(Calls("username_get_base_info") /\ Stored(accounts, call'.username))
         => /\ accounts' = accounts
            /\ result'.kind = "return"
            /\ \E i \in 1..Len(accounts) :
                 /\ accounts[i][2] = call'.username
                 /\ result'.value = <<accounts[i][1], accounts[i][4],
                                      accounts[i][5], accounts[i][6]>>]_vars

\* C9: no two rows of the table carry the same username.
C9_UsernamesUnique ==
    \A i, j \in 1..Len(accounts) :
        i # j => accounts[i][2] # accounts[j][2]

\* C10: every stored account has a start_time and an end_time that are
\* timestamps, with start_time strictly before end_time.
C10_WindowsValid ==
    \A i \in 1..Len(accounts) :
        /\ IsTimestamp(accounts[i][5])
        /\ IsTimestamp(accounts[i][6])
        /\ strptime(accounts[i][5]) < strptime(accounts[i][6])

====
